---- MODULE Spec2Model ----
(***************************************************************************)
(* Model of the text-buffer and scrollable-viewport subsystem of atomix    *)
(* (src/src/buffer.c): the Display_t line store (add_display,              *)
(* clean_up_display), the initial paint (display_buffer), the progress     *)
(* indicator (update_current_line_progress) and the scroll loop            *)
(* (scroll_display).                                                       *)
(***************************************************************************)
EXTENDS Integers, Sequences, FiniteSets, TLC

(***************************************************************************)
(* Bounds of the model.                                                    *)
(***************************************************************************)
MaxLines == 4
\* longest row of a populated store (bytes)
MaxWidth == 3
\* tallest window: nrows ranges over 3..MaxRows
MaxRows == 4
\* widest window: ncols ranges over MinCols..MaxCols
MaxCols == 4
\* largest header_rows argument
MaxHeader == 2
\* appends per store in the store specification
MaxAppends == 3
\* arguments after the program name on a command line
MaxArgs == 2

VARIABLES
  buffer,                \* Display_t: nlines, maxlen, lines (NULL or a sequence of Line_t)
  pc,                    \* "menu": in the caller; "wgetch": blocked in scroll_display's loop;
                         \* "exit": process ended by exit_atomix; "segv": write through NULL
  CONTENT_VIEW_WINDOW,   \* the global Window_t: nrows, ncols
  AtomixConfiguration,   \* process-wide scroll state: current_line, current_col
  win,                   \* scroll_display's by-value copy of the Window_t
  persistent_header,     \* scroll_display's parameter
  header_rows,           \* scroll_display's parameter (after line 215)
  bline_start,           \* scroll_display's local
  bcol_start,            \* scroll_display's local
  srow_origin,           \* scroll_display's local
  screen,                \* cells of the content window: set of [srow, scol, i, j, ch]
  progress,              \* the progress indicator last written, or NoProgress
  notice,                \* TRUE when the "No text in ... buffer to show" notice is shown
  last,                  \* history: the last input event and what it did
  appended,              \* history: the (fmt, va) of each add_display call since the
                         \* store was last empty, in call order
  argv,                  \* main's argument vector, argv[0] first; argc is its length
  cli                    \* check_command_line: position, output, exit status, result

vars == <<buffer, pc, CONTENT_VIEW_WINDOW, AtomixConfiguration, win, persistent_header,
          header_rows, bline_start, bcol_start, srow_origin, screen, progress, notice,
          last, appended, argv, cli>>

storeVars == <<buffer, appended>>
sessionVars == <<win, persistent_header, header_rows, bline_start, bcol_start, srow_origin>>
surfaceVars == <<screen, progress, notice>>
cmdVars == <<argv, cli>>

(***************************************************************************)
(* Helpers.                                                                *)
(***************************************************************************)
Max(a, b) == IF a < b THEN b ELSE a

RECURSIVE SeqMax(_)
SeqMax(s) == IF s = <<>> THEN 0 ELSE Max(Head(s), SeqMax(Tail(s)))

(***************************************************************************)
(* printf-style formatting as vsnprintf/vsprintf perform it: the template  *)
(* is a sequence of tokens, each a literal byte or the directive "%s",     *)
(* which consumes the next argument (a byte string).                       *)
(***************************************************************************)
RECURSIVE vsprintf(_, _)
vsprintf(fmt, va) ==
  IF fmt = <<>> THEN <<>>
  ELSE IF Head(fmt) = "%s"
       THEN IF va = <<>> THEN vsprintf(Tail(fmt), va)
            ELSE Head(va) \o vsprintf(Tail(fmt), Tail(va))
       ELSE <<Head(fmt)>> \o vsprintf(Tail(fmt), va)

\* vsnprintf (NULL, 0, fmt, va): the length the formatted output needs
vsnprintf_len(fmt, va) == Len(vsprintf(fmt, va))

(***************************************************************************)
(* The line store.                                                         *)
(***************************************************************************)
NULL == "NULL"

EmptyDisplay == [nlines |-> 0, maxlen |-> 0, lines_ptr |-> NULL, lines |-> <<>>]

\* buffer.c:99-100 counting up by one instead of taking the new length
maxlen_update_by_one(maxlen, len) == IF maxlen < len THEN maxlen + 1 ELSE maxlen

\* buffer.c:99-100
maxlen_update(maxlen, len) == IF maxlen < len THEN len + 1 ELSE maxlen

\* buffer.c:93-97: the Line_t written for one call (len is vsprintf's return value)
new_line(fmt, va) ==
  [len |-> Len(vsprintf(fmt, va)), chars_ptr |-> "heap", chars |-> vsprintf(fmt, va)]

\* buffer.c:82-83: the Line_t before its storage is allocated
blank_line == [len |-> 0, chars_ptr |-> NULL, chars |-> <<>>]

\* buffer.c:75-77 growing the sequence at the front
grow_lines_front(b, line) == <<line>> \o b.lines

\* buffer.c:75-77,82-97: the new Line_t goes to index nlines - 1
grow_lines(b, line) == Append(b.lines, line)

\* buffer.c:68-106, every allocation succeeding
add_display_ok(b, fmt, va) ==
  [nlines    |-> b.nlines + 1,
   maxlen    |-> maxlen_update(b.maxlen, new_line(fmt, va).len),
   lines_ptr |-> "heap",
   lines     |-> grow_lines(b, new_line(fmt, va))]

\* buffer.c:75-80: realloc returns NULL; nlines is already incremented
add_display_realloc_failed(b) ==
  [nlines |-> b.nlines + 1, maxlen |-> b.maxlen, lines_ptr |-> NULL, lines |-> <<>>]

\* buffer.c:75-94: malloc returns NULL for the new line's chars
add_display_malloc_failed(b) ==
  [nlines |-> b.nlines + 1, maxlen |-> b.maxlen, lines_ptr |-> "heap",
   lines |-> grow_lines(b, blank_line)]

\* buffer.c:36-41 without the assignment at line 41: lines keeps the released address
clean_up_display_store_dangling(b) == [EmptyDisplay EXCEPT !.lines_ptr = b.lines_ptr]

\* buffer.c:36-41
clean_up_display_store(b) == EmptyDisplay

\* buffer.c:36-38: the blocks handed to free, as indices of lines[i].chars and the
\* address in lines (free of a null pointer releases nothing)
clean_up_display_frees(b) ==
  [chars |-> {i \in 0..(b.nlines - 1) : b.lines[i + 1].chars_ptr # NULL},
   lines |-> b.lines_ptr]

(***************************************************************************)
(* The viewport: painting and the progress indicator.                      *)
(***************************************************************************)
\* buffer->lines[i].len; i outside the sequence is read only by no reachable paint
line_len(b, i) == IF i >= 0 /\ i < Len(b.lines) THEN b.lines[i + 1].len ELSE 0

\* buffer->lines[i].chars[j]
line_char(b, i, j) ==
  IF i >= 0 /\ i < Len(b.lines) /\ j >= 0 /\ j < Len(b.lines[i + 1].chars)
  THEN b.lines[i + 1].chars[j + 1] ELSE 0

\* buffer.c:155 with the comparison made inclusive
at_end_inclusive(w, current_line, total_lines) == current_line + w.nrows - 2 >= total_lines

\* buffer.c:155
at_end(w, current_line, total_lines) == current_line + w.nrows - 2 > total_lines

\* buffer.c:149-166: the message written at the foot of the window
update_current_line_progress(w, current_line, total_lines) ==
  IF at_end(w, current_line, total_lines)
  THEN <<"END", total_lines>>
  ELSE <<"NUM", current_line, total_lines>>

\* buffer.c:310-313 and 323-326: the cells one row loop writes for line i at screen row srow
paint_row(b, w, i, srow, bcol, scol_origin) ==
  {[srow |-> srow, scol |-> scol_origin + (j - bcol), i |-> i, j |-> j, ch |-> line_char(b, i, j)] :
     j \in {x \in bcol..(line_len(b, i) - 1) : scol_origin + (x - bcol) < w.ncols - 1}}

\* buffer.c:308-314: the persistent header, rows 1.. of the window
paint_header(b, w, hrows, bcol) ==
  UNION {paint_row(b, w, i, 1 + i, bcol, 1) :
           i \in {x \in 0..(hrows - 1) : 1 + x < w.nrows - 1}}

\* buffer.c:321-327 with srow starting at 1 instead of srow_origin
paint_body_from_top(b, w, bline, srow0, bcol) ==
  UNION {paint_row(b, w, bline + k, 1 + k, bcol, 1) :
           k \in {x \in 0..(w.nrows - 2) : bline + x < b.nlines /\ 1 + x < w.nrows - 1}}

\* buffer.c:321-327: the scrolling part, from screen row srow0
paint_body(b, w, bline, srow0, bcol) ==
  UNION {paint_row(b, w, bline + k, srow0 + k, bcol, 1) :
           k \in {x \in 0..(w.nrows - 2) : bline + x < b.nlines /\ srow0 + x < w.nrows - 1}}

\* buffer.c:308-310: the indices i for which the header loop reads buffer->lines[i]
header_lines_read(w, hrows) == {i \in 0..(hrows - 1) : 1 + i < w.nrows - 1}

\* buffer.c:321-323: the indices i for which the body loop reads buffer->lines[i]
body_lines_read(b, w, bline, srow0) ==
  {bline + k : k \in {x \in 0..(w.nrows - 2) : bline + x < b.nlines /\ srow0 + x < w.nrows - 1}}

\* buffer.c:380-382: the indices i for which the initial paint reads buffer->lines[i]
initial_lines_read(b, w) == {i \in 0..(b.nlines - 1) : i < w.nrows - 2}

\* buffer.c:380-387: the initial paint of display_buffer
paint_initial(b, w) ==
  UNION {{[srow |-> i + 1, scol |-> j + 1, i |-> i, j |-> j, ch |-> line_char(b, i, j)] :
            j \in {x \in 0..(line_len(b, i) - 1) : x < w.ncols - 2}} :
           i \in {x \in 0..(b.nlines - 1) : x < w.nrows - 2}}

(***************************************************************************)
(* The scroll loop of scroll_display.                                      *)
(***************************************************************************)
QuitKeys == {"q", "KEY_F1"}
VerticalKeys == {"KEY_UP", "KEY_DOWN", "KEY_NPAGE", "KEY_PPAGE", "KEY_HOME", "KEY_END"}
HorizontalKeys == {"KEY_RIGHT", "KEY_LEFT"}
NavigationKeys == VerticalKeys \cup HorizontalKeys
\* "OTHER" stands for every key code the switch has no case for; "NUL" is key code 0
OtherKeys == {"OTHER", "NUL"}
Keys == QuitKeys \cup NavigationKeys \cup {"KEY_RESIZE"} \cup OtherKeys

\* buffer.c:243-283 with the default case marking the screen as moved
switch_key_default_moves(ch, bline, bcol, w, b) ==
  CASE ch = "KEY_RESIZE" -> [bline |-> bline, bcol |-> bcol, moved |-> TRUE]
    [] ch = "KEY_UP"     -> [bline |-> bline - 1, bcol |-> bcol, moved |-> TRUE]
    [] ch = "KEY_DOWN"   -> [bline |-> bline + 1, bcol |-> bcol, moved |-> TRUE]
    [] ch = "KEY_RIGHT"  -> [bline |-> bline, bcol |-> bcol + 1, moved |-> TRUE]
    [] ch = "KEY_LEFT"   -> [bline |-> bline, bcol |-> bcol - 1, moved |-> TRUE]
    [] ch = "KEY_NPAGE"  -> [bline |-> bline + (w.nrows - 2), bcol |-> bcol, moved |-> TRUE]
    [] ch = "KEY_PPAGE"  -> [bline |-> bline - (w.nrows - 2), bcol |-> bcol, moved |-> TRUE]
    [] ch = "KEY_HOME"   -> [bline |-> 0, bcol |-> bcol, moved |-> TRUE]
    [] ch = "KEY_END"    -> [bline |-> b.nlines - w.nrows + 2, bcol |-> bcol, moved |-> TRUE]
    [] OTHER             -> [bline |-> bline, bcol |-> bcol, moved |-> TRUE]

\* buffer.c:243-283 with screen_position_moved set only when an offset differs
switch_key_if_changed(ch, bline, bcol, w, b) ==
  CASE ch = "KEY_RESIZE" -> [bline |-> bline, bcol |-> bcol, moved |-> TRUE]
    [] ch = "KEY_UP"     -> [bline |-> bline - 1, bcol |-> bcol, moved |-> bline > 0]
    [] ch = "KEY_DOWN"   -> [bline |-> bline + 1, bcol |-> bcol, moved |-> TRUE]
    [] ch = "KEY_RIGHT"  -> [bline |-> bline, bcol |-> bcol + 1, moved |-> TRUE]
    [] ch = "KEY_LEFT"   -> [bline |-> bline, bcol |-> bcol - 1, moved |-> bcol > 0]
    [] ch = "KEY_NPAGE"  -> [bline |-> bline + (w.nrows - 2), bcol |-> bcol, moved |-> TRUE]
    [] ch = "KEY_PPAGE"  -> [bline |-> bline - (w.nrows - 2), bcol |-> bcol, moved |-> bline > 0]
    [] ch = "KEY_HOME"   -> [bline |-> 0, bcol |-> bcol, moved |-> bline > 0]
    [] ch = "KEY_END"    -> [bline |-> b.nlines - w.nrows + 2, bcol |-> bcol, moved |-> TRUE]
    [] OTHER             -> [bline |-> bline, bcol |-> bcol, moved |-> FALSE]

\* buffer.c:243-283: the offsets after the switch, and screen_position_moved
switch_key(ch, bline, bcol, w, b) ==
  CASE ch = "KEY_RESIZE" -> [bline |-> bline, bcol |-> bcol, moved |-> TRUE]
    [] ch = "KEY_UP"     -> [bline |-> bline - 1, bcol |-> bcol, moved |-> TRUE]
    [] ch = "KEY_DOWN"   -> [bline |-> bline + 1, bcol |-> bcol, moved |-> TRUE]
    [] ch = "KEY_RIGHT"  -> [bline |-> bline, bcol |-> bcol + 1, moved |-> TRUE]
    [] ch = "KEY_LEFT"   -> [bline |-> bline, bcol |-> bcol - 1, moved |-> TRUE]
    [] ch = "KEY_NPAGE"  -> [bline |-> bline + (w.nrows - 2), bcol |-> bcol, moved |-> TRUE]
    [] ch = "KEY_PPAGE"  -> [bline |-> bline - (w.nrows - 2), bcol |-> bcol, moved |-> TRUE]
    [] ch = "KEY_HOME"   -> [bline |-> 0, bcol |-> bcol, moved |-> TRUE]
    [] ch = "KEY_END"    -> [bline |-> b.nlines - w.nrows + 2, bcol |-> bcol, moved |-> TRUE]
    [] OTHER             -> [bline |-> bline, bcol |-> bcol, moved |-> FALSE]

\* buffer.c:289-292 without the test at line 289
clamp_line_no_floor(bline, hrows, w, b) ==
  IF bline + w.nrows - 2 > b.nlines THEN b.nlines - w.nrows + 2 ELSE bline

\* buffer.c:289-292
clamp_line(bline, hrows, w, b) ==
  LET lo == IF bline < hrows THEN hrows ELSE bline
  IN  IF lo + w.nrows - 2 > b.nlines THEN b.nlines - w.nrows + 2 ELSE lo

\* buffer.c:294-297 without the test at line 294
clamp_col_no_floor(bcol, w, b, cfg) ==
  IF bcol + w.ncols - 2 > b.maxlen THEN cfg.current_col ELSE bcol

\* buffer.c:294-297
clamp_col(bcol, w, b, cfg) ==
  LET lo == IF bcol < 0 THEN 0 ELSE bcol
  IN  IF lo + w.ncols - 2 > b.maxlen THEN cfg.current_col ELSE lo

\* buffer.c:241 with the guard left out
key_control_allowed_always(b, w) == TRUE

\* buffer.c:241: key control only when the buffer can scroll off the screen
key_control_allowed(b, w) == b.nlines > w.nrows - 2

\* the window sizes a terminal can take
MinCols == 4

WindowSizes == [nrows : 3..MaxRows, ncols : MinCols..MaxCols]

\* redraw_screen (SIGWINCH), called at buffer.c:246: the global window takes the
\* terminal's new geometry
redraw_screen(size) == size

(***************************************************************************)
(* Inputs of the store specification.                                      *)
(***************************************************************************)
\* argv[0]
ProgramName == <<"a", "t", "o", "m", "i", "x">>

Templates == {<<"%s">>, <<"-", "%s">>, <<"-", "-", "-">>}
Arguments == {<< <<>> >>, << <<"x">> >>, << <<"x", "y">> >>}

\* what a store through a null pointer does on the hosted builds: the process traps
NullWriteOutcomes == {"segv"}

\* history record of an input event: the key, the offsets before it,
\* and whether the window was cleared and repainted
NoEvent ==
  [key |-> "NONE", bline |-> 0, bcol |-> 0, repaint |-> FALSE]

\* check_command_line not yet called: nothing printed, no file read
NotCalled ==
  [pc |-> "start", printed |-> "none", status |-> "none", provided |-> FALSE, file |-> <<>>]

\* the display side of the program before its first operation
InitDisplay ==
  /\ buffer = EmptyDisplay
  /\ pc = "menu"
  /\ CONTENT_VIEW_WINDOW \in WindowSizes
  /\ AtomixConfiguration = [current_line |-> 0, current_col |-> 0]
  /\ win = [nrows |-> 0, ncols |-> 0]
  /\ persistent_header = FALSE
  /\ header_rows = 0
  /\ bline_start = 0
  /\ bcol_start = 0
  /\ srow_origin = 0
  /\ screen = {}
  /\ progress = <<>>
  /\ notice = FALSE
  /\ last = NoEvent
  /\ appended = <<>>

\* the program started without arguments
Init ==
  /\ InitDisplay
  /\ argv = <<ProgramName>>
  /\ cli = NotCalled

\* tools.c:220-236: the screen is restored, "Fatal Error: " and the message are printed
\* and the process ends with exit (errno)
exit_atomix == "exit"

\* buffer.c:68-106
add_display(fmt, va, realloc_ok, malloc_ok) ==
  /\ pc = "menu"
  /\ Len(appended) < MaxAppends
  /\ appended' = Append(appended, [fmt |-> fmt, va |-> va])
  /\ IF ~realloc_ok
     THEN /\ buffer' = add_display_realloc_failed(buffer)
          /\ pc' = exit_atomix
     ELSE IF ~malloc_ok
     THEN /\ buffer' = add_display_malloc_failed(buffer)
          /\ pc' \in NullWriteOutcomes
     ELSE /\ buffer' = add_display_ok(buffer, fmt, va)
          /\ pc' = pc
  /\ UNCHANGED <<CONTENT_VIEW_WINDOW, AtomixConfiguration, sessionVars, surfaceVars, last,
                 cmdVars>>

\* buffer.c:31-42 (the event history ends with the store it was about)
clean_up_display ==
  /\ pc = "menu"
  /\ buffer' = clean_up_display_store(buffer)
  /\ appended' = <<>>
  /\ last' = NoEvent
  /\ UNCHANGED <<pc, CONTENT_VIEW_WINDOW, AtomixConfiguration, sessionVars, surfaceVars,
                 cmdVars>>

(***************************************************************************)
(* The stores a caller populates before display_buffer: n rows, row i      *)
(* holding width bytes when i is even and one byte fewer when i is odd,    *)
(* each added by add_display (buffer, "%s", row).                          *)
(***************************************************************************)
Widths == {0, 1, MaxWidth}

row_bytes(i, width) ==
  [j \in 1..(IF i % 2 = 0 \/ width = 0 THEN width ELSE width - 1) |-> 16 * i + j]

document(n, width) == [i \in 1..n |-> [fmt |-> <<"%s">>, va |-> <<row_bytes(i - 1, width)>>]]

RECURSIVE add_all(_, _)
add_all(b, calls) ==
  IF calls = <<>> THEN b
  ELSE add_all(add_display_ok(b, Head(calls).fmt, Head(calls).va), Tail(calls))

\* buffer.c:373 taking every store to hold text
has_no_text_never(b) == FALSE

\* buffer.c:373
has_no_text(b) == b.nlines = 0 \/ b.lines_ptr = NULL

\* buffer.c:371-394 on store b, with scroll_display's entry (buffer.c:205-229) when
\* scroll is SCROLL_ENABLE
show(b, scroll, ph, hrows) ==
  /\ last' = NoEvent
  /\ IF has_no_text(b)
     THEN /\ screen' = {}
          /\ progress' = <<>>
          /\ notice' = TRUE
          /\ UNCHANGED <<pc, sessionVars>>
     ELSE /\ screen' = paint_initial(b, CONTENT_VIEW_WINDOW)
          /\ progress' = update_current_line_progress(CONTENT_VIEW_WINDOW, 1, b.nlines)
          /\ notice' = FALSE
          /\ IF scroll
             THEN /\ win' = CONTENT_VIEW_WINDOW
                  /\ persistent_header' = ph
                  /\ header_rows' = (IF ph THEN hrows ELSE 0)
                  /\ bline_start' = (IF ph THEN hrows ELSE 0)
                  /\ bcol_start' = 0
                  /\ srow_origin' = (IF ph THEN 1 + hrows ELSE 1)
                  /\ pc' = "wgetch"
             ELSE UNCHANGED <<pc, sessionVars>>
  /\ UNCHANGED <<CONTENT_VIEW_WINDOW, AtomixConfiguration, cmdVars>>

\* buffer.c:364-395
display_buffer(scroll, ph, hrows) ==
  /\ pc = "menu"
  /\ show(buffer, scroll, ph, hrows)
  /\ UNCHANGED <<buffer, appended>>

\* a caller filling the empty store, one add_display call per row, and showing it
build_and_show(n, width, scroll, ph, hrows) ==
  /\ pc = "menu"
  /\ buffer.nlines = 0
  /\ LET calls == document(n, width)
         b == add_all(buffer, calls)
     IN  /\ buffer' = b
         /\ appended' = calls
         /\ show(b, scroll, ph, hrows)

\* buffer.c:299-300 with the column taken from the line offset
persist_offsets_line_twice(cfg, bline, bcol) ==
  [cfg EXCEPT !.current_line = bline, !.current_col = bline]

\* buffer.c:299-300
persist_offsets(cfg, bline, bcol) ==
  [cfg EXCEPT !.current_line = bline, !.current_col = bcol]

\* buffer.c:233 testing 'q' alone
is_quit_key_q_only(ch) == ch = "q"

\* buffer.c:233
is_quit_key(ch) == ch \in QuitKeys

\* buffer.c:231-335: one turn of the loop, from wgetch returning ch to the next wgetch
scroll_display(ch, size) ==
  /\ pc = "wgetch"
  /\ last' = [key |-> ch, bline |-> bline_start, bcol |-> bcol_start,
              repaint |-> /\ ch # "NUL"
                          /\ ~is_quit_key(ch)
                          /\ key_control_allowed(buffer, win)
                          /\ switch_key(ch, bline_start, bcol_start, win, buffer).moved]
  /\ IF ch = "NUL" \/ is_quit_key(ch)
     THEN /\ pc' = "menu"
          /\ UNCHANGED <<CONTENT_VIEW_WINDOW, AtomixConfiguration, bline_start, bcol_start,
                         surfaceVars>>
     ELSE IF ~key_control_allowed(buffer, win)
     THEN UNCHANGED <<pc, CONTENT_VIEW_WINDOW, AtomixConfiguration, bline_start, bcol_start,
                      surfaceVars>>
     ELSE LET sw == switch_key(ch, bline_start, bcol_start, win, buffer)
              bl == clamp_line(sw.bline, header_rows, win, buffer)
              bc == clamp_col(sw.bcol, win, buffer, AtomixConfiguration)
          IN  /\ pc' = pc
              /\ CONTENT_VIEW_WINDOW' =
                   (IF ch = "KEY_RESIZE" THEN redraw_screen(size) ELSE CONTENT_VIEW_WINDOW)
              /\ IF sw.moved
                 THEN /\ bline_start' = bl
                      /\ bcol_start' = bc
                      /\ AtomixConfiguration' = persist_offsets(AtomixConfiguration, bl, bc)
                      /\ screen' =
                           (IF persistent_header
                            THEN paint_header(buffer, win, header_rows, bc) ELSE {})
                           \cup paint_body(buffer, win, bl, srow_origin, bc)
                      /\ progress' = update_current_line_progress(
                                       win, bl + 1 - header_rows, buffer.nlines - header_rows)
                      /\ notice' = FALSE
                 ELSE UNCHANGED <<AtomixConfiguration, bline_start, bcol_start, surfaceVars>>
  /\ UNCHANGED <<buffer, appended, win, persistent_header, header_rows, srow_origin,
                 cmdVars>>

AddDisplayStep ==
  \E fmt \in Templates, va \in Arguments, realloc_ok \in BOOLEAN, malloc_ok \in BOOLEAN :
    add_display(fmt, va, realloc_ok, malloc_ok)

NextStore == AddDisplayStep \/ clean_up_display

SpecStore == Init /\ [][NextStore]_vars

\* the (scroll, persistent_header, header_rows) arguments callers pass
DisplayArguments ==
  {<<FALSE, FALSE, 0>>, <<TRUE, FALSE, 0>>} \cup {<<TRUE, TRUE, h>> : h \in 0..MaxHeader}

BuildAndShowStep ==
  \E n \in 1..MaxLines, width \in Widths, a \in DisplayArguments :
    build_and_show(n, width, a[1], a[2], a[3])

DisplayBufferStep == \E a \in DisplayArguments : display_buffer(a[1], a[2], a[3])

ScrollDisplayStep ==
  \E ch \in Keys :
    \E size \in (IF ch = "KEY_RESIZE" THEN WindowSizes ELSE {CONTENT_VIEW_WINDOW}) :
      scroll_display(ch, size)

Next == BuildAndShowStep \/ DisplayBufferStep \/ ScrollDisplayStep \/ clean_up_display

Spec == Init /\ [][Next]_vars

(***************************************************************************)
(* The command line (tools.c).  Strings are sequences of one-byte strings.  *)
(***************************************************************************)
\* tools.c:141: the suffix compared against
DotDat == <<".", "d", "a", "t">>

\* tools.c:152: the help option
DashH == <<"-", "h">>

\* the arguments tried: the help option, names shorter than the suffix, a name of the
\* suffix's length without it, and a name ending in it
Args == {DashH, <<"x">>, <<"d", "a", "t">>, <<"d", "a", "t", "a">>, <<"x", ".", "d", "a", "t">>}

\* argv for up to MaxArgs arguments
CommandLines ==
  {<<ProgramName>> \o rest : rest \in UNION {[1..n -> Args] : n \in 0..MaxArgs}}

\* the bytes lying in front of atomic_data_name that the comparison at tools.c:141 reads
\* when the name is shorter than the suffix
StrayBytes == {".", "d", "a", "?"}

BytesBefore(name) ==
  IF Len(name) >= Len(DotDat) THEN {<<>>}
  ELSE [1..(Len(DotDat) - Len(name)) -> StrayBytes]

\* tools.c:141: strcmp (&atomic_data_name[strlen (atomic_data_name) - 4], ".dat") == 0
has_dat_suffix(name, before) ==
  IF Len(name) >= Len(DotDat)
  THEN SubSeq(name, Len(name) - Len(DotDat) + 1, Len(name)) = DotDat
  ELSE before \o name = DotDat

\* tools.c:140-142: the file name handed to get_atomic_data
atomic_data_name(name, before) ==
  IF has_dat_suffix(name, before) THEN name ELSE name \o DotDat

\* tools.c:138-168: what the call prints, whether and how it ends the process, and what
\* it returns, for argument vector av and the error code get_atomic_data returns
check_command_line_result(av, before, atomic_data_error) ==
  IF Len(av) = 2
  THEN IF atomic_data_error # 0
       THEN [pc |-> "exit", printed |-> "read_error", status |-> "EXIT_FAILURE",
             provided |-> FALSE, file |-> atomic_data_name(av[2], before)]
       ELSE [pc |-> "returned", printed |-> "none", status |-> "none",
             provided |-> TRUE, file |-> atomic_data_name(av[2], before)]
  ELSE IF Len(av) > 2 /\ av[2] = DashH
  THEN [pc |-> "exit", printed |-> "help", status |-> "EXIT_SUCCESS",
        provided |-> FALSE, file |-> <<>>]
  ELSE IF Len(av) > 2
  THEN [pc |-> "exit", printed |-> "unknown_help", status |-> "EXIT_FAILURE",
        provided |-> FALSE, file |-> <<>>]
  ELSE [pc |-> "returned", printed |-> "none", status |-> "none",
        provided |-> FALSE, file |-> <<>>]

\* the error codes of get_atomic_data: 0 for a file it could read
AtomicDataErrors == {0, 1}

\* tools.c:124-169
check_command_line(before, atomic_data_error) ==
  /\ cli.pc = "start"
  /\ cli' = check_command_line_result(argv, before, atomic_data_error)
  /\ UNCHANGED <<buffer, pc, CONTENT_VIEW_WINDOW, AtomixConfiguration, sessionVars,
                 surfaceVars, last, appended, argv>>

\* main started with any of the command lines
InitCommandLine ==
  /\ InitDisplay
  /\ argv \in CommandLines
  /\ cli = NotCalled

NextCommandLine ==
  \E before \in (IF Len(argv) = 2 THEN BytesBefore(argv[2]) ELSE {<<>>}),
     atomic_data_error \in (IF Len(argv) = 2 THEN AtomicDataErrors ELSE {0}) :
    check_command_line(before, atomic_data_error)

SpecCommandLine == InitCommandLine /\ [][NextCommandLine]_vars

(***************************************************************************)
(* Properties.                                                             *)
(***************************************************************************)
InSession == pc = "wgetch"
Scrollable == buffer.nlines > win.nrows - 2
\* the state right after a repaint of the scroll loop
Repainted == InSession /\ last.repaint
LineLengths == [i \in 1..Len(buffer.lines) |-> buffer.lines[i].len]

\* C1: after every repaint of a scroll session the vertical offset lies in
\* [header_rows, line_count - nrows + 2]; in particular it is never below header_rows.
C1_VerticalClampRange ==
  Repainted => /\ header_rows <= bline_start
               /\ bline_start <= buffer.nlines - win.nrows + 2

\* C2 (as claimed): with a store of at most nrows - 2 lines the scroll controller never
\* waits for a key.
C2_NoInputLoopWhenSmall == InSession => buffer.nlines > win.nrows - 2

\* C2 (amended): with a store of at most nrows - 2 lines the controller does wait for
\* keys, but no key changes an offset, the process-wide scroll state, the window geometry
\* or the painted window, and the loop ends only on 'q', F1 or key code 0.
C2_SmallStoreIgnoresKeys ==
  [][(pc = "wgetch" /\ buffer.nlines <= win.nrows - 2)
       => /\ UNCHANGED <<screen, progress, notice, bline_start, bcol_start,
                         AtomixConfiguration, CONTENT_VIEW_WINDOW>>
          /\ (pc' = "wgetch" \/ last'.key \in QuitKeys \cup {"NUL"})]_vars

C2_Witness ==
  InSession /\ buffer.nlines <= win.nrows - 2 /\ last.key = "KEY_DOWN" /\ screen # {}

\* C3: after any sequence of add_display calls maxlen equals the maximum length of the
\* lines appended so far.
C3_MaxlenIsMaximum == pc = "menu" => buffer.maxlen = SeqMax(LineLengths)

\* C4: nlines equals the number of add_display calls since the store was last empty, the
\* lines are held in call order, and each line's len is the number of bytes of its chars.
C4_CountOrderLength ==
  pc = "menu" =>
    /\ buffer.nlines = Len(appended)
    /\ Len(buffer.lines) = buffer.nlines
    /\ \A i \in 1..Len(appended) :
         /\ buffer.lines[i].chars = vsprintf(appended[i].fmt, appended[i].va)
         /\ buffer.lines[i].len = Len(buffer.lines[i].chars)

C4_Witness ==
  /\ pc = "menu"
  /\ buffer.nlines = 3
  /\ buffer.lines[1].chars = <<"-", "x", "y">>
  /\ buffer.lines[2].chars = <<>>
  /\ buffer.lines[3].chars = <<"x">>

\* C5: after a resize event the controller uses the recomputed geometry, and the offset
\* it paints is clamped against the new number of rows.
C5_ResizeUsesNewGeometry ==
  (Repainted /\ last.key = "KEY_RESIZE") =>
    /\ win = CONTENT_VIEW_WINDOW
    /\ \/ bline_start + CONTENT_VIEW_WINDOW.nrows - 2 <= buffer.nlines
       \/ bline_start <= header_rows

\* C6: a scroll session that follows one which wrote the process-wide scroll state
\* starts at the offsets held there.
C6_SeededFromLastPosition ==
  (InSession /\ last.key = "NONE"
     /\ (AtomixConfiguration.current_line > 0 \/ AtomixConfiguration.current_col > 0))
    => /\ bline_start = AtomixConfiguration.current_line
       /\ bcol_start = AtomixConfiguration.current_col

\* C7 (as claimed): an input event that leaves both clamped offsets at their previous
\* values triggers no clear and no repaint.
C7_RepaintOnlyOnChange ==
  (InSession /\ last.key # "NONE" /\ bline_start = last.bline /\ bcol_start = last.bcol)
    => ~last.repaint

\* C7 (amended): the window is cleared and repainted exactly on a navigation key or a
\* resize event received while the store is scrollable, whether or not an offset changed.
C7_RepaintExactlyOnScrollKeys ==
  (InSession /\ last.key # "NONE")
    => (last.repaint <=> (last.key \in NavigationKeys \cup {"KEY_RESIZE"} /\ Scrollable))

C7_Witness ==
  /\ Repainted
  /\ last.key = "KEY_UP"
  /\ bline_start = last.bline
  /\ bcol_start = last.bcol

\* C8: a key that is not quit, resize or a navigation key leaves both offsets and the
\* process-wide scroll state unchanged and causes no clear, paint or flush.
C8_OtherKeysChangeNothing ==
  [][(pc = "wgetch" /\ last'.key \in OtherKeys)
       => /\ UNCHANGED <<bline_start, bcol_start, AtomixConfiguration, screen, progress, notice>>
          /\ ~last'.repaint]_vars

C8_Witness ==
  /\ InSession
  /\ Scrollable
  /\ last.key = "OTHER"
  /\ AtomixConfiguration.current_line > 0
  /\ bline_start = AtomixConfiguration.current_line

\* C9: after every repaint the indicator shows END exactly when the vertical offset is
\* line_count - nrows + 2, and otherwise the 1-based index, counted without the header
\* rows, of the line painted in the first content row.
C9_ProgressIndicator ==
  Repainted =>
    /\ (progress[1] = "END") <=> (bline_start = buffer.nlines - win.nrows + 2)
    /\ progress[1] # "END" =>
         /\ progress[2] = bline_start + 1 - header_rows
         /\ progress[2] >= 1
         /\ \A c \in screen : c.srow = srow_origin => progress[2] = c.i - header_rows + 1

C9_Witness ==
  /\ Repainted
  /\ header_rows = 1
  /\ last.key = "KEY_UP"
  /\ last.bline = 2
  /\ progress = <<"NUM", 1, 3>>
  /\ \E c \in screen : c.srow = srow_origin /\ c.i = 1

\* C10: for a store at least as wide as the viewport, the horizontal offset of every
\* repaint satisfies horizontal_offset + ncols - 2 <= max_line_length.
C10_NoHorizontalOverscroll ==
  (Repainted /\ buffer.maxlen >= win.ncols - 2)
    => bcol_start + win.ncols - 2 <= buffer.maxlen

\* C11: the horizontal offset of every repaint and the horizontal position held in the
\* process-wide state are never negative (the process-wide position starts at 0).
C11_HorizontalNonNegative ==
  /\ AtomixConfiguration.current_col >= 0
  /\ Repainted => bcol_start >= 0

C11_Witness ==
  /\ Repainted
  /\ last.key = "KEY_LEFT"
  /\ last.bcol = 0
  /\ bcol_start = 0
  /\ AtomixConfiguration.current_col = 0
  /\ buffer.maxlen >= win.ncols - 2

\* the store cells a paint at offsets (bline, bcol) puts in body row srow of the window
painted_from(bline, bcol) ==
  \A c \in screen :
    c.srow >= srow_origin =>
      /\ c.i = bline + (c.srow - srow_origin)
      /\ c.j = bcol + (c.scol - 1)

\* C12: every repaint leaves (current_line, current_col) equal to the clamped offsets it
\* painted with, and a turn of the loop that does not repaint, the one that ends the
\* session included, leaves the process-wide position untouched.
C12_RepaintPersistsOffsets ==
  [][/\ (pc' = "wgetch" /\ last'.repaint)
          => /\ AtomixConfiguration'.current_line = bline_start'
             /\ AtomixConfiguration'.current_col = bcol_start'
             /\ painted_from(AtomixConfiguration.current_line,
                             AtomixConfiguration.current_col)'
     /\ (pc = "wgetch" /\ ~last'.repaint) => UNCHANGED AtomixConfiguration]_vars

C12_Witness ==
  /\ pc = "menu"
  /\ last.key \in QuitKeys
  /\ AtomixConfiguration = [current_line |-> 2, current_col |-> 1]
  /\ bline_start = 2
  /\ bcol_start = 1
  /\ \E c \in screen : c.srow = srow_origin /\ c.scol = 1 /\ c.i = 2 /\ c.j = 1

\* C13: from any state of a session, whatever the size of the store, the turn of the
\* loop that reads 'q' or F1 ends the session at once: control is back with the caller
\* and the window, both offsets, the window geometry and the process-wide position are
\* as they were, so a session ends in the turn in which a quit key arrives.
C13_QuitEndsSession ==
  [][(pc = "wgetch" /\ last'.key \in QuitKeys)
       => /\ pc' = "menu"
          /\ ~last'.repaint
          /\ UNCHANGED <<buffer, screen, progress, notice, bline_start, bcol_start,
                         AtomixConfiguration, CONTENT_VIEW_WINDOW>>]_vars

C13_Witness ==
  /\ pc = "menu"
  /\ last.key = "KEY_F1"
  /\ buffer.nlines <= win.nrows - 2
  /\ screen # {}

C13_WitnessScrolled ==
  /\ pc = "menu"
  /\ last.key = "q"
  /\ buffer.nlines > win.nrows - 2
  /\ last.bline > header_rows
  /\ bline_start = last.bline

\* C14: displaying a store whose line count is 0, one that was populated and torn down
\* included, leaves the window holding the "No text in <name> buffer to show" notice and
\* nothing else, paints no cell of any line, and returns to the caller without entering
\* the scroll loop, whatever the scroll argument.
C14_EmptyStoreShowsNotice ==
  [][(pc = "menu" /\ buffer.nlines = 0 /\ buffer'.nlines = 0)
       => /\ pc' = "menu"
          /\ UNCHANGED sessionVars
          /\ UNCHANGED AtomixConfiguration
          /\ (surfaceVars' # surfaceVars \/ notice')
               => (notice' /\ screen' = {} /\ progress' = <<>>)]_vars

C14_Witness ==
  /\ pc = "menu"
  /\ buffer = EmptyDisplay
  /\ notice
  /\ screen = {}
  /\ AtomixConfiguration.current_line > 0

\* C15: clean_up_display takes every populated store to the empty store (no lines,
\* line count 0, maximum length 0), and clean_up_display on the store it left is a no-op
\* that hands no block to free a second time.
C15_CleanUpIdempotent ==
  pc = "menu" =>
    LET once == clean_up_display_store(buffer)
        twice == clean_up_display_store(once)
    IN  /\ once.nlines = 0
        /\ once.maxlen = 0
        /\ once.lines = <<>>
        /\ twice = once
        /\ clean_up_display_frees(once) = [chars |-> {}, lines |-> NULL]

C15_Witness ==
  /\ pc = "menu"
  /\ buffer.nlines = 2
  /\ buffer.maxlen > 0
  /\ clean_up_display_frees(buffer) = [chars |-> {0, 1}, lines |-> "heap"]

\* C16: an allocation failure in add_display, for the grown sequence or for the new
\* line's storage, ends the process through exit_atomix before the line's content is
\* written: the process never writes through unallocated storage, and a store holding a
\* line without storage exists only in a process that exit_atomix has ended.
C16_AllocationFailureIsFatal ==
  /\ pc # "segv"
  /\ (\E i \in 1..Len(buffer.lines) : buffer.lines[i].chars_ptr = NULL) => pc = exit_atomix

\* the store line (0-based) that viewport row r (0-based) is claimed to show
ViewportLine(r) == IF r < header_rows THEN r ELSE bline_start + r - header_rows

\* C17: after every repaint, viewport row r < nrows - 2 shows store line r when
\* r < header_rows and store line bline_start + r - header_rows otherwise; the row shows
\* that line's bytes from column bcol_start on, as many as the window is wide and the
\* line is long, and nothing else is painted.
C17_RowToLineMapping ==
  Repainted =>
    /\ \A r \in 0..(win.nrows - 3) : ViewportLine(r) \in 0..(buffer.nlines - 1)
    /\ screen =
         {[srow |-> p[1] + 1, scol |-> p[2] + 1, i |-> ViewportLine(p[1]),
           j |-> bcol_start + p[2],
           ch |-> buffer.lines[ViewportLine(p[1]) + 1].chars[bcol_start + p[2] + 1]] :
            p \in {q \in (0..(win.nrows - 3)) \X (0..(win.ncols - 3)) :
                     bcol_start + q[2] < buffer.lines[ViewportLine(q[1]) + 1].len}}

C17_Witness ==
  /\ Repainted
  /\ persistent_header
  /\ header_rows = 1
  /\ bline_start = 2
  /\ bcol_start = 1
  /\ \E c \in screen : c.srow = 1 /\ c.scol = 1 /\ c.i = 0 /\ c.j = 1
  /\ \E c \in screen : c.srow = 2 /\ c.scol = 1 /\ c.i = 2 /\ c.j = 1

\* C18: in a session on a scrollable store, HOME repaints at offset header_rows and END
\* at offset line_count - nrows + 2 from any position, so a second press changes
\* nothing; and page-down pressed at the bottom offset stays at the bottom offset, the
\* one END reaches.
C18_HomeEndJump ==
  Repainted =>
    /\ last.key = "KEY_HOME" => bline_start = header_rows
    /\ last.key = "KEY_END" => bline_start = buffer.nlines - win.nrows + 2
    /\ (last.key = "KEY_NPAGE" /\ last.bline = buffer.nlines - win.nrows + 2)
         => bline_start = last.bline

\* C19: in every state of a store that add_display and clean_up_display calls, in any
\* order, leave to the running program, the line count is the number of lines held and
\* the maximum line length is at least the length of every line held.
C19_StoreConsistent ==
  pc = "menu" =>
    /\ buffer.nlines = Len(buffer.lines)
    /\ (buffer.lines_ptr = NULL) <=> (buffer.nlines = 0)
    /\ \A i \in 1..Len(buffer.lines) : buffer.maxlen >= buffer.lines[i].len

C19_Witness ==
  /\ pc = "menu"
  /\ buffer.nlines = 2
  /\ Len(appended) = 2
  /\ buffer.lines[1].len = 1
  /\ buffer.lines[2].len = 3
  /\ buffer.maxlen = 4

\* C20: whenever the first argument is -h, with any number of arguments after it,
\* check_command_line prints the help text and ends the process with EXIT_SUCCESS, and
\* hands no file name made from -h to get_atomic_data.
C20_HelpOptionHonoured ==
  (cli.pc # "start" /\ Len(argv) >= 2 /\ argv[2] = DashH)
    => /\ cli.pc = "exit"
       /\ cli.printed = "help"
       /\ cli.status = "EXIT_SUCCESS"
       /\ cli.file = <<>>

\* the cells of the window were painted from bytes that exist in the store
CellsInStore ==
  \A c \in screen :
    /\ c.i \in 0..(buffer.nlines - 1)
    /\ c.j \in 0..(buffer.lines[c.i + 1].len - 1)

\* C21: every paint reads only lines and bytes the store holds: after the initial paint
\* of display_buffer and after every repaint of scroll_display, each line index read
\* lies in [0, line_count) and each painted cell comes from a column in [0, length of
\* its line).
C21_PaintIndicesInRange ==
  /\ (pc \in {"menu", "wgetch"} /\ buffer.nlines > 0)
       => /\ initial_lines_read(buffer, CONTENT_VIEW_WINDOW) \subseteq 0..(buffer.nlines - 1)
          /\ CellsInStore
  /\ Repainted
       => /\ (IF persistent_header THEN header_lines_read(win, header_rows) ELSE {})
               \subseteq 0..(buffer.nlines - 1)
          /\ body_lines_read(buffer, win, bline_start, srow_origin)
               \subseteq 0..(buffer.nlines - 1)
          /\ CellsInStore

C21_Witness ==
  /\ Repainted
  /\ persistent_header
  /\ header_rows = 1
  /\ bcol_start = 1
  /\ bline_start = buffer.nlines - win.nrows + 2
  /\ header_lines_read(win, header_rows) = {0}
  /\ body_lines_read(buffer, win, bline_start, srow_origin) = {bline_start}
  /\ \E c \in screen : c.i = bline_start /\ c.j = buffer.lines[c.i + 1].len - 1

\* the store lines a repaint at the current offsets reads
LinesInView ==
  (IF persistent_header THEN header_lines_read(win, header_rows) ELSE {})
    \cup body_lines_read(buffer, win, bline_start, srow_origin)

\* C22: every line of a scrollable store can be brought into view by navigation keys,
\* with or without a frozen header; in particular a repaint at the bottom offset
\* line_count - nrows + 2 has the last line of the store in view.
C22_LastLineAtBottom ==
  (Repainted /\ bline_start = buffer.nlines - win.nrows + 2)
    => (buffer.nlines - 1) \in LinesInView

\* the total and the current-line part ("END" or the numeral) of a progress indicator
progress_total(p) == p[Len(p)]
progress_current(p) == SubSeq(p, 1, Len(p) - 1)

\* C23: the progress indicator of every repaint of a session shows the total that the
\* initial paint of display_buffer showed for the same store, and a repaint at the
\* offset the session started from shows the current-line value of the initial paint.
C23_ProgressSameAsInitial ==
  Repainted =>
    LET initial == update_current_line_progress(win, 1, buffer.nlines)
    IN  /\ progress_total(progress) = progress_total(initial)
        /\ bline_start = header_rows => progress_current(progress) = progress_current(initial)

====
